---- MODULE Spec2Model ----
(***************************************************************************)
(* ZordBOT: the multi-node RPC client (core/rpc.py) and the mint engine    *)
(* with its fee estimator, mempool scanner and ticker watcher              *)
(* (core/mint_engine.py), as state machines.                               *)
(*                                                                         *)
(* Time is a discrete clock `now` (one tick = one time unit); every        *)
(* interval of the program is a whole number of ticks.  The rate limit of  *)
(* the RPC client is held as its minimum interval 1.0/rate_limit_per_sec   *)
(* (0 = rate_limit_per_sec unset).  time.sleep(d) blocks the caller until  *)
(* at least d ticks have passed.                                           *)
(***************************************************************************)
EXTENDS Integers, Sequences, FiniteSets, TLC

\* ---------------------------------------------------------------- bounds
MaxNodes == 3
MaxRetry == 2
MaxRetryWait == 1
MaxInterval == 2
MaxCalls == 2
MaxTime == 2
NumCallers == 2
MaxMints == 2
MaxMempool == 3
MaxScan == 2
MaxMintTime == 3
NumJobs == 2
MaxJobInterval == 3
MaxTickLen == 2
MaxWallets == 2
MaxUtxos == 2
NumTargets == 2
MaxBatch == 2

Callers == 1 .. NumCallers

Max(a, b) == IF a >= b THEN a ELSE b

\* the last n elements of s (all of s when it is shorter)
LastN(s, n) == IF Len(s) <= n THEN s ELSE SubSeq(s, Len(s) - n + 1, Len(s))

\* ------------------------------------------------------------ RPC client
VARIABLES
    nodes,               \* len(self.nodes)
    retry_attempts_cfg,  \* the retry_attempts argument of RPCClient.__init__
    retry_wait_cfg,      \* the retry_wait_seconds argument
    min_interval,        \* 1.0 / rate_limit_per_sec, 0 when unset
    index,               \* self.index
    rate_lock,           \* self._rate_lock: 0 free, else the caller holding it
    last_call_ts,        \* self._last_call_ts
    now,                 \* time.time()
    pc,                  \* per caller: position inside RPCClient.call
    node,                \* per caller: index of the node read by _current_node
    attempt,             \* per caller: tenacity's attempt_number of this call
    wake,                \* per caller: time at which a time.sleep ends
    idx_read,            \* per caller: self.index as loaded by _switch_node
    err,                 \* per caller: the exception caught, and the attempt (of this call) that raised it
    calls,               \* history: number of calls started, by all callers
    tries,               \* history, per caller: requests posted by the current call
    only_retryable,      \* history, per caller: no attempt of the current call ended "malformed"
    last_out,            \* history, per caller: outcome of the latest attempt of the current call
    ret,                 \* history, per caller: how the last finished call ended
    sent,                \* history: the last `nodes` attempts, <<node, failed>>
    released             \* history: the last two times the limiter let an attempt go

rpcVars == <<nodes, retry_attempts_cfg, retry_wait_cfg, min_interval, index,
             rate_lock, last_call_ts, now, pc, node, attempt, wake, idx_read,
             err, calls, tries, only_retryable, last_out, ret, sent, released>>

\* the client's variables but the clock
rpcRest == <<nodes, retry_attempts_cfg, retry_wait_cfg, min_interval, index,
             rate_lock, last_call_ts, pc, node, attempt, wake, idx_read,
             err, calls, tries, only_retryable, last_out, ret, sent, released>>

\* ----------------------------------------------------- mint engine, state
VARIABLES
    e_retry_attempts,    \* the retry_attempts argument of MintEngine.__init__
    rate_limit_seconds,  \* MintEngine.rate_limit_seconds, 0 when unset
    default_fee,         \* FeeEstimator.default_fee
    fee_dynamic,         \* FeeEstimator.dynamic
    fee_api_url,         \* FeeEstimator.external_fee_api has a url
    ticker,              \* "absent": no ticker_watcher; "no_url": one without url; "url"
    scanner,             \* MintEngine.mempool_scanner is set
    max_scan,            \* MempoolScanner.max_scan
    last_mint_ts,        \* MintEngine._last_mint_ts
    mints,               \* history: number of calls started (mint, can_mint, estimate)
    m                    \* per job: the frame of its mint() call, and its history

\* ------------------------------------------------------- scheduler, state
VARIABLES
    stop_event,          \* Scheduler._stop_event is set
    interval,            \* per job: job["interval"]
    sj                   \* per job: position in _job_loop, `waited`, and its history

schedVars == <<stop_event, interval, sj>>

\* ----------------------------------------------------- inscription, state
VARIABLES
    ins_tick,            \* the tick argument of mint()
    ins_amount,          \* the amount argument of mint()
    ins                  \* the JSON and the script made from them

insVars == <<ins_tick, ins_amount, ins>>

\* ------------------------------------------------------ mint cycle, state
VARIABLES
    strategy,            \* WalletSelector.strategy
    n_wallets,           \* len(WalletSelector.wallets)
    rr,                  \* MultiWallet._round_robin: wallets handed out so far, mod n_wallets
    owner,               \* per UTXO of the node: the wallet whose address holds it
    utxo_amount,         \* per UTXO: its amount
    unspent,             \* the UTXOs the node lists as unspent
    batch,               \* per target: MintTarget.batch
    cy                   \* per job: its position in run_mint_cycle, and its history

cycleVars == <<strategy, n_wallets, rr, owner, utxo_amount, unspent, batch, cy>>

\* ------------------------------------------------------ mempool scan, state
VARIABLES
    scan_tick,           \* the tick argument of contains_tick()
    pending_tick,        \* the tick minted by the transaction pending in the mempool
    sc                   \* the frame of contains_tick(): position, raw hex, result

scanVars == <<scan_tick, pending_tick, sc>>

\* everything outside the RPC client and the mint engine
otherVars == <<schedVars, insVars, cycleVars, scanVars>>

mintCfg == <<e_retry_attempts, rate_limit_seconds, default_fee, fee_dynamic,
             fee_api_url, ticker, scanner, max_scan>>

mintVars == <<e_retry_attempts, rate_limit_seconds, default_fee, fee_dynamic,
              fee_api_url, ticker, scanner, max_scan, last_mint_ts, mints, m,
              otherVars>>

vars == <<rpcVars, mintVars>>

\* What one requests.post + response handling can do (_perform_request):
\*   ok         a response carrying a result
\*   transport  requests.RequestException (connect, timeout, HTTP status)
\*   rpc_error  RPCError, the response carries an error
\*   malformed  any other exception (KeyError: neither result nor error)
Outcomes == {"ok", "transport", "rpc_error", "malformed"}

\* retry=retry_if_exception_type((requests.RequestException, RPCError))
Retryable(e) == e \in {"transport", "rpc_error"}

\* a client that allows itself one more attempt
RetryBudgetPlusOne == Max(1, retry_attempts_cfg) + 1

\* self.retry_attempts = max(1, retry_attempts)
RetryBudget == Max(1, retry_attempts_cfg)

\* self.retry_wait_seconds = max(0, retry_wait_seconds)
RetryWait == Max(0, retry_wait_cfg)

NoErr == [kind |-> "none", of |-> 0]

NoRet == [kind |-> "none", attempt |-> 0, err |-> NoErr, tries |-> 0,
          only_retryable |-> TRUE, last_out |-> "none"]

\* __init__: `if not rpc_nodes: raise ValueError(...)`; a client exists only
\* for a list of n > 0 nodes
Constructed(n) == n > 0

InitRPC ==
    /\ nodes \in {n \in 0 .. MaxNodes : Constructed(n)}
    /\ retry_attempts_cfg \in 0 .. MaxRetry
    /\ retry_wait_cfg \in -1 .. MaxRetryWait
    /\ min_interval \in 0 .. MaxInterval
    /\ index = 0
    /\ rate_lock = 0
    /\ last_call_ts = 0
    /\ now = MaxInterval
    /\ pc = [t \in Callers |-> "idle"]
    /\ node = [t \in Callers |-> 0]
    /\ attempt = [t \in Callers |-> 0]
    /\ wake = [t \in Callers |-> 0]
    /\ idx_read = [t \in Callers |-> 0]
    /\ err = [t \in Callers |-> NoErr]
    /\ calls = 0
    /\ tries = [t \in Callers |-> 0]
    /\ only_retryable = [t \in Callers |-> TRUE]
    /\ last_out = [t \in Callers |-> "none"]
    /\ ret = [t \in Callers |-> NoRet]
    /\ sent = <<>>
    /\ released = <<>>

\* call(): a fresh Retrying object, so attempt_number starts at 1
StartCallFresh(t) ==
    /\ pc[t] = "idle"
    /\ calls < MaxCalls
    /\ calls' = calls + 1
    /\ attempt' = [attempt EXCEPT ![t] = 1]
    /\ ret' = [ret EXCEPT ![t] = NoRet]
    /\ pc' = [pc EXCEPT ![t] = "read_node"]
    /\ UNCHANGED mintVars
    /\ UNCHANGED <<nodes, retry_attempts_cfg, retry_wait_cfg, min_interval, index,
                   rate_lock, last_call_ts, now, node, wake, idx_read, err,
                   tries, only_retryable, last_out, sent, released>>

\* a Retrying object kept across calls: attempt_number goes on counting
StartCallKeepCount(t) ==
    /\ pc[t] = "idle"
    /\ calls < MaxCalls
    /\ calls' = calls + 1
    /\ attempt' = [attempt EXCEPT ![t] = attempt[t] + 1]
    /\ ret' = [ret EXCEPT ![t] = NoRet]
    /\ pc' = [pc EXCEPT ![t] = "read_node"]
    /\ UNCHANGED mintVars
    /\ UNCHANGED <<nodes, retry_attempts_cfg, retry_wait_cfg, min_interval, index,
                   rate_lock, last_call_ts, now, node, wake, idx_read, err,
                   tries, only_retryable, last_out, sent, released>>

StartCall(t) == StartCallFresh(t)

\* _perform_request: node = self._current_node(); then self._respect_rate_limit()
\* returns at once when rate_limit_per_sec is unset
ReadNode(t) ==
    /\ pc[t] = "read_node"
    /\ node' = [node EXCEPT ![t] = index]
    /\ pc' = [pc EXCEPT ![t] = IF min_interval = 0 THEN "post" ELSE "rl_enter"]
    /\ UNCHANGED mintVars
    /\ UNCHANGED <<nodes, retry_attempts_cfg, retry_wait_cfg, min_interval, index,
                   rate_lock, last_call_ts, now, attempt, wake, idx_read, err,
                   calls, tries, only_retryable, last_out, ret, sent, released>>

\* `with self._rate_lock:` can be entered
LockFreeNoMutex(t) == TRUE

LockFree(t) == rate_lock = 0

\* _respect_rate_limit: take the lock, read the clock, decide whether to sleep
RLEnter(t) ==
    /\ pc[t] = "rl_enter"
    /\ LockFree(t)
    /\ rate_lock' = t
    /\ LET elapsed == now - last_call_ts
       IN IF elapsed < min_interval
          THEN /\ wake' = [wake EXCEPT ![t] = now + (min_interval - elapsed)]
               /\ pc' = [pc EXCEPT ![t] = "rl_sleep"]
          ELSE /\ wake' = wake
               /\ pc' = [pc EXCEPT ![t] = "rl_stamp"]
    /\ UNCHANGED mintVars
    /\ UNCHANGED <<nodes, retry_attempts_cfg, retry_wait_cfg, min_interval, index,
                   last_call_ts, now, node, attempt, idx_read, err, calls,
                   tries, only_retryable, last_out, ret, sent, released>>

\* time.sleep(min_interval - elapsed) returns
RLSleep(t) ==
    /\ pc[t] = "rl_sleep"
    /\ now >= wake[t]
    /\ pc' = [pc EXCEPT ![t] = "rl_stamp"]
    /\ UNCHANGED mintVars
    /\ UNCHANGED <<nodes, retry_attempts_cfg, retry_wait_cfg, min_interval, index,
                   rate_lock, last_call_ts, now, node, attempt, wake, idx_read, err,
                   calls, tries, only_retryable, last_out, ret, sent, released>>

\* self._last_call_ts = time.time(), and the lock is left: the attempt is released
RLStamp(t) ==
    /\ pc[t] = "rl_stamp"
    /\ last_call_ts' = now
    /\ released' = LastN(Append(released, now), 2)
    /\ rate_lock' = 0
    /\ pc' = [pc EXCEPT ![t] = "post"]
    /\ UNCHANGED mintVars
    /\ UNCHANGED <<nodes, retry_attempts_cfg, retry_wait_cfg, min_interval, index,
                   now, node, attempt, wake, idx_read, err, calls, tries, only_retryable, last_out,
                   ret, sent>>

\* the locals of a finished call are gone, its history moves to `ret`
Forget(f, t, v) == [f EXCEPT ![t] = v]

\* requests.post to the node read before, raise_for_status, json, error check.
\* A result is returned from call(); any exception goes to the except block.
Post(t) ==
    /\ pc[t] = "post"
    /\ \E o \in Outcomes :
        /\ sent' = LastN(Append(sent, <<node[t], o # "ok">>), nodes)
        /\ IF o = "ok"
           THEN /\ ret' = [ret EXCEPT ![t] =
                              [kind |-> "ok", attempt |-> attempt[t], err |-> NoErr,
                               tries |-> tries[t] + 1,
                               only_retryable |-> only_retryable[t], last_out |-> o]]
                /\ pc' = [pc EXCEPT ![t] = "idle"]
                /\ node' = Forget(node, t, 0)
                /\ tries' = Forget(tries, t, 0)
                /\ only_retryable' = Forget(only_retryable, t, TRUE)
                /\ last_out' = Forget(last_out, t, "none")
                /\ err' = err
           ELSE /\ err' = [err EXCEPT ![t] = [kind |-> o, of |-> tries[t] + 1]]
                /\ pc' = [pc EXCEPT ![t] = "switch_read"]
                /\ tries' = [tries EXCEPT ![t] = tries[t] + 1]
                /\ only_retryable' =
                       [only_retryable EXCEPT ![t] = only_retryable[t] /\ o # "malformed"]
                /\ last_out' = [last_out EXCEPT ![t] = o]
                /\ UNCHANGED <<ret, node>>
    /\ UNCHANGED mintVars
    /\ UNCHANGED <<nodes, retry_attempts_cfg, retry_wait_cfg, min_interval, index,
                   rate_lock, last_call_ts, now, attempt, wake, idx_read, calls,
                   released>>

\* _switch_node loads self.index ...
SwitchRead(t) ==
    /\ pc[t] = "switch_read"
    /\ idx_read' = [idx_read EXCEPT ![t] = index]
    /\ pc' = [pc EXCEPT ![t] = "switch_write"]
    /\ UNCHANGED mintVars
    /\ UNCHANGED <<nodes, retry_attempts_cfg, retry_wait_cfg, min_interval, index,
                   rate_lock, last_call_ts, now, node, attempt, wake, err,
                   calls, tries, only_retryable, last_out, ret, sent, released>>

\* an index that is advanced without the modulo
NextIndexUnwrapped(i) == i + 1

NextIndexSticky(i) == IF i + 1 < nodes THEN i + 1 ELSE i

\* (self.index + 1) % len(self.nodes)
NextIndex(i) == (i + 1) % nodes

\* a Retrying object that retries every exception
GivesUpOnBudgetOnly(t) == attempt[t] >= RetryBudget

\* the Retrying object stops: the exception is not of a retried type, or
\* stop_after_attempt(self.retry_attempts) says so
GivesUp(t) == ~Retryable(err[t].kind) \/ attempt[t] >= RetryBudget

\* ... and stores the next index; the exception is re-raised into the Retrying
\* object, which either re-raises it to the caller (reraise=True) or sleeps
\* wait_fixed(self.retry_wait_seconds)
SwitchWrite(t) ==
    /\ pc[t] = "switch_write"
    /\ index' = NextIndex(idx_read[t])
    /\ idx_read' = Forget(idx_read, t, 0)
    /\ IF GivesUp(t)
       THEN /\ ret' = [ret EXCEPT ![t] =
                          [kind |-> "raised", attempt |-> attempt[t], err |-> err[t],
                           tries |-> tries[t], only_retryable |-> only_retryable[t],
                           last_out |-> last_out[t]]]
            /\ pc' = [pc EXCEPT ![t] = "idle"]
            /\ node' = Forget(node, t, 0)
            /\ err' = Forget(err, t, NoErr)
            /\ wake' = Forget(wake, t, 0)
            /\ tries' = Forget(tries, t, 0)
            /\ only_retryable' = Forget(only_retryable, t, TRUE)
            /\ last_out' = Forget(last_out, t, "none")
       ELSE /\ wake' = [wake EXCEPT ![t] = now + RetryWait]
            /\ pc' = [pc EXCEPT ![t] = "retry_wait"]
            /\ UNCHANGED <<ret, node, err, tries, only_retryable, last_out>>
    /\ UNCHANGED mintVars
    /\ UNCHANGED <<nodes, retry_attempts_cfg, retry_wait_cfg, min_interval,
                   rate_lock, last_call_ts, now, attempt, calls, sent, released>>

\* the wait between two attempts is over: next attempt
NextAttempt(t) ==
    /\ pc[t] = "retry_wait"
    /\ now >= wake[t]
    /\ attempt' = [attempt EXCEPT ![t] = attempt[t] + 1]
    /\ pc' = [pc EXCEPT ![t] = "read_node"]
    /\ UNCHANGED mintVars
    /\ UNCHANGED <<nodes, retry_attempts_cfg, retry_wait_cfg, min_interval, index,
                   rate_lock, last_call_ts, now, node, wake, idx_read, err,
                   calls, tries, only_retryable, last_out, ret, sent, released>>

\* the clock advances
Tick ==
    /\ now < MaxInterval + MaxTime
    /\ now' = now + 1
    /\ UNCHANGED mintVars
    /\ UNCHANGED <<nodes, retry_attempts_cfg, retry_wait_cfg, min_interval, index,
                   rate_lock, last_call_ts, pc, node, attempt, wake, idx_read, err,
                   calls, tries, only_retryable, last_out, ret, sent, released>>

CallerStep(t) ==
    \/ StartCall(t)
    \/ ReadNode(t)
    \/ RLEnter(t)
    \/ RLSleep(t)
    \/ RLStamp(t)
    \/ Post(t)
    \/ SwitchRead(t)
    \/ SwitchWrite(t)
    \/ NextAttempt(t)

\* ------------------------------------------------- mint engine, operations
\* In this part a whole rpc.call(...) is one step: it returns a result or
\* raises (what call() does inside is the client's part above).

Min(a, b) == IF a <= b THEN a ELSE b

\* amounts of the UTXO handed to mint(), in the unit of the fees
Amounts == {2, 10}

DefaultFees == {0, 1, 13}

\* a JSON field as Python sees it: a number, a numeric string, another
\* string, or None / no such key
Num(v) == [k |-> "num", v |-> v]
StrNum(v) == [k |-> "str", v |-> v]
BadStr == [k |-> "bad", v |-> 0]
Absent == [k |-> "absent", v |-> 0]

\* `if x:` on such a field
Truthy(f) == IF f.k = "num" THEN f.v # 0 ELSE f.k # "absent"

\* float(x) does not raise
FloatOk(f) == f.k \in {"num", "str"}

\* what a fee source hands to estimate(): a value, None, None after it caught
\* and logged an exception of its own, or an exception
Value(v) == [st |-> "value", v |-> v]
None == [st |-> "none", v |-> 0]
Caught == [st |-> "caught", v |-> 0]
Raise == [st |-> "raise", v |-> 0]
Unasked == [st |-> "unasked", v |-> 0]

\* rpc.call("estimatesmartfee", ...): raises, returns something that is no
\* dict, or a dict whose feerate is one of these fields
FeeRates == {Num(-5), Num(0), Num(5), Num(30), StrNum(0), BadStr, Absent}
NodeFeeReplies ==
    {[r |-> "exc", feerate |-> Absent], [r |-> "not_dict", feerate |-> Absent]}
        \cup {[r |-> "dict", feerate |-> f] : f \in FeeRates}

\* requests.get(url) / raise_for_status / json(): raises, or a dict whose
\* configured field is one of these
ApiFees == {Num(-1), Num(0), Num(3), Num(11), StrNum(0), BadStr, Absent}
ApiFeeReplies ==
    {[r |-> "exc", fee |-> Absent]} \cup {[r |-> "dict", fee |-> f] : f \in ApiFees}

TxSizeBytes == 400

\* FeeEstimator._estimate_from_rpc, given what rpc.call did
EstimateFromRpc(reply) ==
    IF reply.r = "exc"
    THEN Caught
    ELSE LET feerate == IF reply.r = "dict" THEN reply.feerate ELSE Absent
         IN IF Truthy(feerate)
            THEN IF FloatOk(feerate)
                 THEN Value((feerate.v * TxSizeBytes) \div 1000)
                 ELSE Caught
            ELSE None

EstimateFromApiUncaught(reply) ==
    IF reply.r = "exc"
    THEN Raise
    ELSE IF Truthy(reply.fee)
         THEN IF FloatOk(reply.fee) THEN Value(reply.fee.v) ELSE Raise
         ELSE None

\* FeeEstimator._estimate_from_api, given what the HTTP GET did (url set)
EstimateFromApi(reply) ==
    IF reply.r = "exc"
    THEN Caught
    ELSE IF Truthy(reply.fee)
         THEN IF FloatOk(reply.fee) THEN Value(reply.fee.v) ELSE Caught
         ELSE None

\* `if fee:` in estimate()
FeeWins(src) == src.st = "value" /\ src.v # 0

\* txids[: self.max_scan] of a list of n ids: how many ids it keeps
SliceLen(n, k) == IF k >= 0 THEN Min(n, k) ELSE Max(0, n + k)

\* stop_after_attempt(max(1, retry_attempts))
MintBudget == Max(1, e_retry_attempts)

BackoffMin == 1
BackoffMax == 8

\* wait_exponential(multiplier=1, min=1, max=8) after attempt n
Backoff(n) == Max(BackoffMin, Min(BackoffMax, 2 ^ (n - 1)))

NoError == [kind |-> "none", of |-> 0]
NoResult == [kind |-> "none", error |-> NoError, txid |-> 0]

\* no call in progress, none made.  `entry` is the method a job has called:
\* MintEngine.mint, MintEngine.can_mint or FeeEstimator.estimate
\* what one _should_proceed met: the watcher's answer ("none": not asked),
\* the getrawmempool call ("none", "failed", "ok"), the number n of pending
\* ids and the number exc of getrawtransaction calls that were skipped
NoTrace == [watch |-> "none", mempool |-> "none", n |-> 0, exc |-> 0]

IdleJob ==
    [pc |-> "idle", entry |-> "none", utxo |-> 0, fee |-> 0, attempt |-> 0, wake |-> 0,
     scan_left |-> 0, last_error |-> NoError, gate |-> NoTrace,
     gate_passed |-> FALSE, n_watch |-> 0, n_mempool |-> 0, fetched |-> 0,
     n_fee_rpc |-> 0, n_fee_api |-> 0, n_default |-> 0, fee_from |-> "none",
     node_src |-> Unasked, api_src |-> Unasked,
     n_exec |-> 0, n_build |-> 0, n_sign |-> 0, n_send |-> 0, n_backoff |-> 0,
     n_req |-> 0, stamp |-> 0, res |-> NoResult]

\* the engine, its estimator, scanner and watcher as build_engine makes them
InitMint ==
    /\ e_retry_attempts \in 0 .. MaxRetry
    /\ rate_limit_seconds \in 0 .. MaxInterval
    /\ default_fee \in DefaultFees
    /\ fee_dynamic \in BOOLEAN
    /\ fee_api_url \in BOOLEAN
    /\ ticker \in {"absent", "no_url", "url"}
    /\ scanner \in BOOLEAN
    /\ max_scan \in IF scanner THEN -1 .. MaxScan ELSE {0}
    /\ last_mint_ts = 0
    /\ mints = 0
    /\ m = [t \in Callers |-> IdleJob]

\* what a mint step leaves alone
mintFrame == <<nodes, retry_attempts_cfg, retry_wait_cfg, min_interval, index,
               rate_lock, last_call_ts, now, pc, node, attempt, wake, idx_read,
               err, calls, tries, only_retryable, last_out, ret, sent, released,
               e_retry_attempts, rate_limit_seconds, default_fee, fee_dynamic,
               fee_api_url, ticker, scanner, max_scan, otherVars>>

\* mint() raises or returns: its frame ends, `res` keeps the outcome
Finish(j, kind, error, txid) ==
    [j EXCEPT !.pc = "idle", !.res = [kind |-> kind, error |-> error, txid |-> txid]]

\* mint(utxo, tick, amount, dest_address) is called
MintStartAtGate(t) ==
    /\ m[t].pc = "idle"
    /\ mints < MaxMints
    /\ mints' = mints + 1
    /\ \E a \in Amounts :
          m' = [m EXCEPT ![t] =
                   [IdleJob EXCEPT !.pc = "gate_watcher", !.entry = "mint", !.utxo = a]]
    /\ UNCHANGED <<mintFrame, last_mint_ts>>

\* a mint() that estimates the fee before it looks at the gate
MintStartAtFee(t) ==
    /\ m[t].pc = "idle"
    /\ mints < MaxMints
    /\ mints' = mints + 1
    /\ \E a \in Amounts :
          m' = [m EXCEPT ![t] =
                   [IdleJob EXCEPT !.pc = "estimate", !.entry = "mint", !.utxo = a]]
    /\ UNCHANGED <<mintFrame, last_mint_ts>>

MintStart(t) == MintStartAtGate(t)

\* can_mint(tick) is called (the watcher job of main): _should_proceed alone
CanMintStart(t) ==
    /\ m[t].pc = "idle"
    /\ mints < MaxMints
    /\ mints' = mints + 1
    /\ m' = [m EXCEPT ![t] = [IdleJob EXCEPT !.pc = "gate_watcher", !.entry = "can_mint"]]
    /\ UNCHANGED <<mintFrame, last_mint_ts>>

\* FeeEstimator.estimate() is called by itself
EstimateStart(t) ==
    /\ m[t].pc = "idle"
    /\ mints < MaxMints
    /\ mints' = mints + 1
    /\ m' = [m EXCEPT ![t] = [IdleJob EXCEPT !.pc = "estimate", !.entry = "estimate"]]
    /\ UNCHANGED <<mintFrame, last_mint_ts>>

\* _should_proceed returns False: can_mint returns it, mint raises
\* RuntimeError("Tick ... gated by watcher")
RejectGate(j, why) ==
    Finish([j EXCEPT !.scan_left = 0],
           IF j.entry = "can_mint" THEN "cannot_mint" ELSE "gated",
           [kind |-> why, of |-> 0], 0)

\* what ExternalTickerWatcher.is_tick_live can meet: no url configured, a
\* failing GET, or a JSON body whose "live" is true, false or missing
TickerReplies ==
    IF ticker = "no_url" THEN {"no_url"} ELSE {"exc", "live_true", "live_false", "live_absent"}

IsTickLiveClosed(reply) == reply = "live_true"

\* ExternalTickerWatcher.is_tick_live
IsTickLive(reply) == reply # "live_false"

\* _should_proceed, first test: `self.ticker_watcher and not ...is_tick_live(tick)`
GateWatcher(t) ==
    /\ m[t].pc = "gate_watcher"
    /\ IF ticker = "absent"
       THEN m' = [m EXCEPT ![t] = [@ EXCEPT !.pc = "gate_scanner"]]
       ELSE \E reply \in TickerReplies :
               LET j == [m[t] EXCEPT !.n_watch = @ + 1, !.gate.watch = reply]
               IN m' = [m EXCEPT ![t] =
                          IF IsTickLive(reply)
                          THEN [j EXCEPT !.pc = "gate_scanner"]
                          ELSE RejectGate(j, "not_live")]
    /\ UNCHANGED <<mintFrame, last_mint_ts, mints>>

\* _should_proceed returns True: can_mint returns it; mint goes on, the
\* frame of _should_proceed is gone
PassGate(j) ==
    LET k == [j EXCEPT !.gate_passed = TRUE, !.scan_left = 0]
    IN IF j.entry = "can_mint"
       THEN Finish(k, "can_mint", NoError, 0)
       ELSE [k EXCEPT !.pc = "estimate", !.gate = NoTrace]

\* rpc.call("getrawmempool"): raises, or returns a list of n pending ids
MempoolReplies ==
    {[ok |-> FALSE, n |-> 0]} \cup {[ok |-> TRUE, n |-> k] : k \in 0 .. MaxMempool}

\* _should_proceed, second test: MempoolScanner.contains_tick up to the slice
\* txids[: self.max_scan]; a failing getrawmempool counts as "not pending"
GateScanner(t) ==
    /\ m[t].pc = "gate_scanner"
    /\ IF ~scanner
       THEN m' = [m EXCEPT ![t] = PassGate(@)]
       ELSE \E reply \in MempoolReplies :
               LET j == [m[t] EXCEPT !.n_mempool = @ + 1,
                                     !.gate.mempool = IF reply.ok THEN "ok" ELSE "failed",
                                     !.gate.n = reply.n]
                   n == IF reply.ok THEN SliceLen(reply.n, max_scan) ELSE 0
               IN m' = [m EXCEPT ![t] =
                          IF n = 0
                          THEN PassGate(j)
                          ELSE [j EXCEPT !.pc = "scan", !.scan_left = n]]
    /\ UNCHANGED <<mintFrame, last_mint_ts, mints>>

\* one turn of the scan loop: getrawtransaction of the next id raises (the
\* id is skipped), or the bytes hold the tick (hit) or not (miss)
\* a scan that gives up (returns False) at the first id it cannot fetch
AfterFetchAbort(j, o) ==
    IF o = "hit" THEN RejectGate(j, "pending")
    ELSE IF o = "exc" THEN PassGate([j EXCEPT !.gate.exc = @ + 1])
    ELSE IF j.scan_left = 0 THEN PassGate(j) ELSE j

\* the body of the scan loop after the fetch: `return True` on a hit,
\* `continue` on an exception, next id or `return False` at the end
AfterFetch(j, o) ==
    LET k == IF o = "exc" THEN [j EXCEPT !.gate.exc = @ + 1] ELSE j
    IN IF o = "hit" THEN RejectGate(k, "pending")
       ELSE IF k.scan_left = 0 THEN PassGate(k) ELSE k

ScanTx(t) ==
    /\ m[t].pc = "scan"
    /\ \E o \in {"exc", "miss", "hit"} :
          LET j == [m[t] EXCEPT !.fetched = @ + 1, !.scan_left = @ - 1]
          IN m' = [m EXCEPT ![t] = AfterFetch(j, o)]
    /\ UNCHANGED <<mintFrame, last_mint_ts, mints>>

\* estimate() returns its fee: to its caller, or to mint(), which logs it and
\* enters the retry loop, whose fresh RetryCallState starts at attempt 1
HaveFee(j, fee, from) ==
    LET k == [j EXCEPT !.fee = fee, !.fee_from = from]
    IN IF j.entry = "estimate"
       THEN Finish(k, "fee", NoError, 0)
       ELSE [k EXCEPT !.pc = "rate_limit", !.attempt = 1]

\* a fee source raised: estimate() and mint() raise with it
FeeRaised(j, from) == Finish(j, "fee_raised", [kind |-> from, of |-> 0], 0)

\* FeeEstimator.estimate: `if not self.dynamic: return self.default_fee`
Estimate(t) ==
    /\ m[t].pc = "estimate"
    /\ m' = [m EXCEPT ![t] =
                IF fee_dynamic
                THEN [@ EXCEPT !.pc = "fee_rpc"]
                ELSE HaveFee(@, default_fee, "static")]
    /\ UNCHANGED <<mintFrame, last_mint_ts, mints>>

\* a loop over the sources that does not return at the first fee
AfterNodeNoReturn(j, src) ==
    IF src.st = "raise" THEN FeeRaised(j, "node") ELSE [j EXCEPT !.pc = "fee_api"]

\* estimate(): `fee = source(); if fee: return fee`, for the first source
AfterNode(j, src) ==
    IF src.st = "raise" THEN FeeRaised(j, "node")
    ELSE IF FeeWins(src) THEN HaveFee(j, src.v, "node")
    ELSE [j EXCEPT !.pc = "fee_api"]

\* first source: self._estimate_from_rpc
FeeRpc(t) ==
    /\ m[t].pc = "fee_rpc"
    /\ \E reply \in NodeFeeReplies :
          LET src == EstimateFromRpc(reply)
              j == [m[t] EXCEPT !.n_fee_rpc = @ + 1, !.node_src = src]
          IN m' = [m EXCEPT ![t] = AfterNode(j, src)]
    /\ UNCHANGED <<mintFrame, last_mint_ts, mints>>

\* second source: self._estimate_from_api, None at once without a url
FeeApi(t) ==
    /\ m[t].pc = "fee_api"
    /\ LET j == [m[t] EXCEPT !.n_fee_api = @ + 1]
       IN IF ~fee_api_url
          THEN m' = [m EXCEPT ![t] = [j EXCEPT !.pc = "fee_default", !.api_src = None]]
          ELSE \E reply \in ApiFeeReplies :
                  LET src == EstimateFromApi(reply)
                      k == [j EXCEPT !.api_src = src]
                  IN m' = [m EXCEPT ![t] =
                             IF src.st = "raise" THEN FeeRaised(k, "api")
                             ELSE IF FeeWins(src) THEN HaveFee(k, src.v, "api")
                             ELSE [k EXCEPT !.pc = "fee_default"]]
    /\ UNCHANGED <<mintFrame, last_mint_ts, mints>>

\* third source: lambda: self.default_fee; when that is falsy too the loop
\* ends and `return self.default_fee` gives the same value
FeeDefault(t) ==
    /\ m[t].pc = "fee_default"
    /\ m' = [m EXCEPT ![t] = HaveFee([@ EXCEPT !.n_default = @ + 1], default_fee, "default")]
    /\ UNCHANGED <<mintFrame, last_mint_ts, mints>>

\* MintEngine._respect_rate_limit: nothing without rate_limit_seconds, else
\* read the clock and decide whether to sleep (no lock is taken)
MintRateLimit(t) ==
    /\ m[t].pc = "rate_limit"
    /\ LET elapsed == now - last_mint_ts
       IN m' = [m EXCEPT ![t] =
                  IF rate_limit_seconds = 0 THEN [@ EXCEPT !.pc = "build"]
                  ELSE IF elapsed < rate_limit_seconds
                       THEN [@ EXCEPT !.pc = "rl_sleep",
                                      !.wake = now + (rate_limit_seconds - elapsed)]
                       ELSE [@ EXCEPT !.pc = "rl_stamp"]]
    /\ UNCHANGED <<mintFrame, last_mint_ts, mints>>

\* time.sleep(self.rate_limit_seconds - elapsed) returns
MintRateSleep(t) ==
    /\ m[t].pc = "rl_sleep"
    /\ now >= m[t].wake
    /\ m' = [m EXCEPT ![t] = [@ EXCEPT !.pc = "rl_stamp", !.wake = 0]]
    /\ UNCHANGED <<mintFrame, last_mint_ts, mints>>

\* self._last_mint_ts = time.time()
MintRateStamp(t) ==
    /\ m[t].pc = "rl_stamp"
    /\ last_mint_ts' = now
    /\ m' = [m EXCEPT ![t] = [@ EXCEPT !.pc = "build", !.stamp = now]]
    /\ UNCHANGED <<mintFrame, mints>>

\* an exception inside _execute: `last_error = exc`, logged, re-raised into
\* the retryer
Failed(j, kind) ==
    [j EXCEPT !.pc = "failed", !.last_error = [kind |-> kind, of |-> j.n_exec]]

CoversFeeOrEqual(j) == j.utxo - j.fee >= 0

\* _build_transaction: send_val = utxo.amount - fee must be positive
CoversFee(j) == j.utxo - j.fee > 0

\* _execute -> _build_transaction on a UTXO of the wallet (its txid is the
\* node's): raises when the UTXO does not cover the fee, and after that test
\* when CBitcoinAddress(dest_address) or the serialisation raises
Build(t) ==
    /\ m[t].pc = "build"
    /\ \E o \in {"built", "exc"} :
          LET j == [m[t] EXCEPT !.n_exec = @ + 1, !.n_build = @ + 1]
          IN m' = [m EXCEPT ![t] =
                     IF ~CoversFee(j) THEN Failed(j, "insufficient")
                     ELSE IF o = "exc" THEN Failed(j, "build")
                     ELSE [j EXCEPT !.pc = "sign"]]
    /\ UNCHANGED <<mintFrame, last_mint_ts, mints>>

\* rpc.call("signrawtransaction", [raw_hex]) raises, or returns a dict with
\* or without "hex", or something without .get
Sign(t) ==
    /\ m[t].pc = "sign"
    /\ \E o \in {"exc", "hex", "no_hex", "not_dict"} :
          LET j == [m[t] EXCEPT !.n_sign = @ + 1]
          IN m' = [m EXCEPT ![t] =
                     IF o \in {"exc", "not_dict"}
                     THEN Failed(j, "sign")
                     ELSE [j EXCEPT !.pc = "send"]]
    /\ UNCHANGED <<mintFrame, last_mint_ts, mints>>

\* rpc.call("sendrawtransaction", [final_hex]) raises or returns the txid,
\* which mint() returns
Send(t) ==
    /\ m[t].pc = "send"
    /\ \E o \in {"exc", "txid"} :
          LET j == [m[t] EXCEPT !.n_send = @ + 1]
          IN m' = [m EXCEPT ![t] =
                     IF o = "exc"
                     THEN Failed(j, "send")
                     ELSE Finish(j, "sent", NoError, j.n_exec)]
    /\ UNCHANGED <<mintFrame, last_mint_ts, mints>>

\* The broadcast with the client inside: rpc.call("sendrawtransaction", ...)
\* is RPCClient.call, run by the job's own thread with a fresh Retrying
\* object; the steps of the call are the client's (ReadNode .. NextAttempt).
SendBegin(t) ==
    /\ m[t].pc = "send"
    /\ pc[t] = "idle"
    /\ calls' = calls + 1
    /\ attempt' = [attempt EXCEPT ![t] = 1]
    /\ ret' = [ret EXCEPT ![t] = NoRet]
    /\ pc' = [pc EXCEPT ![t] = "read_node"]
    /\ m' = [m EXCEPT ![t] = [@ EXCEPT !.pc = "sending", !.n_send = @ + 1]]
    /\ UNCHANGED <<nodes, retry_attempts_cfg, retry_wait_cfg, min_interval, index,
                   rate_lock, last_call_ts, now, node, wake, idx_read, err,
                   tries, only_retryable, last_out, sent, released>>
    /\ UNCHANGED <<mintCfg, last_mint_ts, mints, otherVars>>

\* the call comes back: with the txid, which mint() returns, or with the
\* exception of its last request, which fails this attempt of the engine.
\* n_req adds up the requests the call posted.
SendEnd(t) ==
    /\ m[t].pc = "sending"
    /\ pc[t] = "idle"
    /\ ret[t].kind # "none"
    /\ LET j == [m[t] EXCEPT !.n_req = @ + ret[t].tries]
       IN m' = [m EXCEPT ![t] =
                  IF ret[t].kind = "raised"
                  THEN Failed(j, "send")
                  ELSE Finish(j, "sent", NoError, j.n_exec)]
    /\ UNCHANGED <<mintFrame, last_mint_ts, mints>>

MintGivesUpOneLate(t) == m[t].attempt > MintBudget

\* self.retryer: no retry= argument, so every exception is retried until
\* stop_after_attempt(max(1, retry_attempts))
MintGivesUp(t) == m[t].attempt >= MintBudget

\* the retryer after a failed attempt: re-raise the last error (reraise=True)
\* or sleep wait_exponential
MintRetry(t) ==
    /\ m[t].pc = "failed"
    /\ m' = [m EXCEPT ![t] =
                IF MintGivesUp(t)
                THEN Finish(@, "raised", @.last_error, 0)
                ELSE [@ EXCEPT !.pc = "backoff", !.n_backoff = @ + 1,
                               !.wake = now + Backoff(m[t].attempt)]]
    /\ UNCHANGED <<mintFrame, last_mint_ts, mints>>

\* the backoff sleep is over: next attempt
MintBackoff(t) ==
    /\ m[t].pc = "backoff"
    /\ now >= m[t].wake
    /\ m' = [m EXCEPT ![t] = [@ EXCEPT !.pc = "rate_limit", !.attempt = @ + 1, !.wake = 0]]
    /\ UNCHANGED <<mintFrame, last_mint_ts, mints>>

\* a job is about to read the clock, or sleeps and is not yet due
MintClockWatched ==
    \E t \in Callers :
        \/ m[t].pc \in {"rate_limit", "rl_stamp"}
        \/ m[t].pc \in {"rl_sleep", "backoff"} /\ now < m[t].wake

\* the clock advances.  Only the ticks that a job can tell apart are taken:
\* a tick that nobody watches is the same as one taken just before the next
\* reading of the clock, and oversleeping is the same as time passing then.
MintTick ==
    /\ now < MaxInterval + MaxMintTime
    /\ MintClockWatched
    /\ now' = now + 1
    /\ UNCHANGED <<rpcRest, mintVars>>

GateStep(t) ==
    \/ GateWatcher(t)
    \/ GateScanner(t)
    \/ ScanTx(t)

FeeStep(t) ==
    \/ Estimate(t)
    \/ FeeRpc(t)
    \/ FeeApi(t)
    \/ FeeDefault(t)

ExecuteStep(t) ==
    \/ MintRateLimit(t)
    \/ MintRateSleep(t)
    \/ MintRateStamp(t)
    \/ Build(t)
    \/ Sign(t)
    \/ Send(t)
    \/ MintRetry(t)
    \/ MintBackoff(t)

\* ------------------------------------------------------------- scheduler
Jobs == 1 .. NumJobs

\* a history counter that stops counting at 2
Count(n) == Min(2, n + 1)

\* a job thread as Scheduler.start makes it: at the outer `while` of _job_loop
NewJob ==
    [pc |-> "test_stop", waited |-> 0, raised |-> FALSE,
     at_stop |-> "none", late_runs |-> 0, late_sleeps |-> 0]

\* Scheduler() with its jobs added and start() called
InitSched ==
    /\ stop_event = FALSE
    /\ interval \in [Jobs -> 0 .. MaxJobInterval]
    /\ sj = [j \in Jobs |-> NewJob]

\* what a step of the scheduler leaves alone
schedFrame == <<rpcVars, e_retry_attempts, rate_limit_seconds, default_fee,
                fee_dynamic, fee_api_url, ticker, scanner, max_scan,
                last_mint_ts, mints, m, insVars, cycleVars, scanVars>>

\* stop(): self._stop_event.set().  at_stop remembers where each job was.
Stop ==
    /\ ~stop_event
    /\ stop_event' = TRUE
    /\ sj' = [j \in Jobs |-> [sj[j] EXCEPT !.at_stop = sj[j].pc]]
    /\ UNCHANGED <<interval, schedFrame>>

\* `while not self._stop_event.is_set():`
TestStop(j) ==
    /\ sj[j].pc = "test_stop"
    /\ sj' = [sj EXCEPT ![j] = [@ EXCEPT !.pc = IF stop_event THEN "exited" ELSE "func"]]
    /\ UNCHANGED <<stop_event, interval, schedFrame>>

\* job["func"]() is called
FuncCall(j) ==
    /\ sj[j].pc = "func"
    /\ sj' = [sj EXCEPT ![j] =
                 [@ EXCEPT !.pc = "in_func",
                           !.late_runs = IF stop_event THEN Count(@) ELSE @]]
    /\ UNCHANGED <<stop_event, interval, schedFrame>>

\* a loop without the try: the exception ends the thread
AfterFuncEscapes(j, o) ==
    IF o = "raise"
    THEN [sj[j] EXCEPT !.pc = "exited", !.raised = TRUE]
    ELSE [sj[j] EXCEPT !.pc = "test_wait", !.waited = 0]

\* the function returns, or raises into `except Exception` (logged); then
\* `waited = 0`
AfterFunc(j, o) ==
    [sj[j] EXCEPT !.pc = "test_wait", !.waited = 0,
                  !.raised = @ \/ o = "raise"]

FuncReturn(j) ==
    /\ sj[j].pc = "in_func"
    /\ \E o \in {"ok", "raise"} : sj' = [sj EXCEPT ![j] = AfterFunc(j, o)]
    /\ UNCHANGED <<stop_event, interval, schedFrame>>

WaitingDeaf(j) == sj[j].waited < interval[j]

\* `while waited < job["interval"] and not self._stop_event.is_set():`
Waiting(j) == sj[j].waited < interval[j] /\ ~stop_event

TestWait(j) ==
    /\ sj[j].pc = "test_wait"
    /\ sj' = [sj EXCEPT ![j] = [@ EXCEPT !.pc = IF Waiting(j) THEN "sleep" ELSE "test_stop"]]
    /\ UNCHANGED <<stop_event, interval, schedFrame>>

\* time.sleep(1) returns; waited += 1
Sleep(j) ==
    /\ sj[j].pc = "sleep"
    /\ sj' = [sj EXCEPT ![j] =
                 [@ EXCEPT !.pc = "test_wait", !.waited = @ + 1,
                           !.late_sleeps = IF stop_event THEN Count(@) ELSE @]]
    /\ UNCHANGED <<stop_event, interval, schedFrame>>

JobStep(j) ==
    \/ TestStop(j)
    \/ FuncCall(j)
    \/ FuncReturn(j)
    \/ TestWait(j)
    \/ Sleep(j)

\* ------------------------------------------------------------ inscription
\* Text is a sequence of code points, bytes a sequence of 0 .. 255.

\* code points a tick is made of here: A, z, the quote, the backslash, e-acute
TickChars == {65, 122, 34, 92, 233}

Ticks == UNION {[1 .. n -> TickChars] : n \in 0 .. MaxTickLen}

MintAmounts == {0, 7, 1000, -5}

RECURSIVE Digits(_)
\* the decimal digits of n >= 0, as characters
Digits(n) == IF n < 10 THEN <<48 + n>> ELSE Digits(n \div 10) \o <<48 + (n % 10)>>

\* str(amount) of an int
Str(n) == IF n < 0 THEN <<45>> \o Digits(-n) ELSE Digits(n)

\* one hexadecimal digit, lower case
HexDigit(d) == IF d < 10 THEN 48 + d ELSE 87 + d

\* json.dumps of one character of a string (ensure_ascii is left True):
\* the quote and the backslash get a backslash, a code point past ASCII is
\* written \uXXXX
EscapeChar(c) ==
    IF c = 34 THEN <<92, 34>>
    ELSE IF c = 92 THEN <<92, 92>>
    ELSE IF c > 126
         THEN <<92, 117, HexDigit(c \div 4096), HexDigit((c \div 256) % 16),
                HexDigit((c \div 16) % 16), HexDigit(c % 16)>>
         ELSE <<c>>

RECURSIVE Escape(_)
Escape(s) == IF s = <<>> THEN <<>> ELSE EscapeChar(Head(s)) \o Escape(Tail(s))

\* json.dumps of a str
JsonStr(s) == <<34>> \o Escape(s) \o <<34>>

RECURSIVE JoinItems(_, _, _)
\* the items of a dict, in insertion order, between item separators
JoinItems(items, item_sep, key_sep) ==
    IF items = <<>> THEN <<>>
    ELSE JsonStr(Head(items)[1]) \o key_sep \o JsonStr(Head(items)[2])
         \o (IF Len(items) = 1 THEN <<>> ELSE item_sep)
         \o JoinItems(Tail(items), item_sep, key_sep)

\* json.dumps(payload) with its default separators ", " and ": "
DumpsSpaced(items) == <<123>> \o JoinItems(items, <<44, 32>>, <<58, 32>>) \o <<125>>

\* json.dumps(payload, separators=(",", ":")) of a dict of str to str
Dumps(items) == <<123>> \o JoinItems(items, <<44>>, <<58>>) \o <<125>>

\* the dict of mint() and of build_mint_json: p, op, tick, amt
MintPayload(tick, amount) ==
    << <<(<<112>>), <<122, 114, 99, 45, 50, 48>>>>,
       <<(<<111, 112>>), <<109, 105, 110, 116>>>>,
       <<(<<116, 105, 99, 107>>), tick>>,
       <<(<<97, 109, 116>>), Str(amount)>> >>

\* build_mint_json(tick, amount)
BuildMintJson(tick, amount) == Dumps(MintPayload(tick, amount))

\* str.encode() of one code point (UTF-8, up to two bytes here)
Utf8Char(c) == IF c < 128 THEN <<c>> ELSE <<192 + (c \div 64), 128 + (c % 64)>>

RECURSIVE Encode(_)
Encode(s) == IF s = <<>> THEN <<>> ELSE Utf8Char(Head(s)) \o Encode(Tail(s))

\* b"\x03ord\x11"
magic == <<3, 111, 114, 100, 17>>

\* b"application/json"
mime == <<97, 112, 112, 108, 105, 99, 97, 116, 105, 111, 110, 47, 106, 115, 111, 110>>

\* b"\x00"
null == <<0>>

\* build_inscription_script(data_json)
BuildInscriptionScript(data_json) == magic \o mime \o null \o Encode(data_json)

NoInscription == [pc |-> "start", data_json |-> <<>>, script |-> <<>>, helper |-> <<>>]

\* mint(utxo, tick, amount, dest_address) is called with some tick and amount
InitInscription ==
    /\ ins_tick \in Ticks
    /\ ins_amount \in MintAmounts
    /\ ins = NoInscription

insFrame == <<rpcVars, e_retry_attempts, rate_limit_seconds, default_fee,
              fee_dynamic, fee_api_url, ticker, scanner, max_scan,
              last_mint_ts, mints, m, schedVars, cycleVars, scanVars,
              ins_tick, ins_amount>>

\* mint(): inscription_json = {...}; json.dumps(inscription_json, separators=(",", ":"))
MintDumps ==
    /\ ins.pc = "start"
    /\ ins' = [ins EXCEPT !.pc = "dumped",
                          !.data_json = Dumps(MintPayload(ins_tick, ins_amount))]
    /\ UNCHANGED insFrame

\* _build_transaction: txin.scriptSig = build_inscription_script(inscription_json)
MintScript ==
    /\ ins.pc = "dumped"
    /\ ins' = [ins EXCEPT !.pc = "built", !.script = BuildInscriptionScript(ins.data_json)]
    /\ UNCHANGED insFrame

\* build_mint_json of the same tick and amount, to compare
HelperJson ==
    /\ ins.pc = "built"
    /\ ins' = [ins EXCEPT !.pc = "done", !.helper = BuildMintJson(ins_tick, ins_amount)]
    /\ UNCHANGED insFrame

\* -------------------------------------------------------------- mint cycle
Wallets == 1 .. n_wallets

Utxos == 1 .. MaxUtxos

Targets == 1 .. NumTargets

\* what the node lists for wallet w (listunspent of its address)
ListUtxos(w) == {u \in unspent : owner[u] = w}

RECURSIVE SumAmounts(_)
SumAmounts(S) ==
    IF S = {} THEN 0
    ELSE LET u == CHOOSE x \in S : TRUE IN utxo_amount[u] + SumAmounts(S \ {u})

\* Wallet.balance
Balance(w) == SumAmounts(ListUtxos(w))

\* MultiWallet.richest_wallet: max(balances, key=...), the first of the
\* largest in list order
RichestWallet ==
    CHOOSE w \in Wallets :
        \A o \in Wallets :
            Balance(w) > Balance(o) \/ (Balance(w) = Balance(o) /\ w <= o)

\* max(utxos, key=lambda u: u.amount): the first of the largest in list order
LargestUtxo(S) ==
    CHOOSE u \in S :
        \A x \in S :
            utxo_amount[u] > utxo_amount[x] \/ (utxo_amount[u] = utxo_amount[x] /\ u <= x)

\* what a MultiWallet object has
MultiWalletAttrs == {"wallets", "_round_robin", "next_wallet", "richest_wallet", "all"}

\* the UTXOs a selection that kept off those another job holds would see
SelectableFree(t, w) ==
    {u \in ListUtxos(w) : \A o \in Callers \ {t} : cy[o].utxo # u}

\* Wallet.select_largest_utxo looks at all that list_utxos returns
Selectable(t, w) == ListUtxos(w)

NoCycle ==
    [pc |-> "idle", ti |-> 0, bi |-> 0, wallet |-> 0, utxo |-> 0,
     attempts |-> [k \in Targets |-> 0], failed |-> [k \in Targets |-> FALSE],
     abort |-> "none", richest_ok |-> TRUE, largest |-> TRUE, bcast |-> "none"]

\* main(): wallets, selector, targets; the node's unspent outputs
InitCycle ==
    /\ strategy \in {"round_robin", "richest"}
    /\ n_wallets \in 1 .. MaxWallets
    /\ rr = 0
    /\ owner \in [Utxos -> Wallets]
    /\ utxo_amount \in [Utxos -> Amounts]
    /\ unspent = Utxos
    /\ batch \in [Targets -> 0 .. MaxBatch]
    /\ cy = [t \in Callers |-> NoCycle]

cycleFrame == <<rpcVars, e_retry_attempts, rate_limit_seconds, default_fee,
                fee_dynamic, fee_api_url, ticker, scanner, max_scan,
                last_mint_ts, mints, m, schedVars, insVars, scanVars,
                strategy, n_wallets, owner, utxo_amount, batch>>

RECURSIVE NextIter(_)
\* the two `for` loops: the next (target, batch index), or the end
NextIter(c) ==
    IF c.ti > NumTargets THEN [c EXCEPT !.pc = "done"]
    ELSE IF c.bi >= batch[c.ti] THEN NextIter([c EXCEPT !.ti = @ + 1, !.bi = 0])
    ELSE [c EXCEPT !.pc = "pick", !.bi = @ + 1, !.wallet = 0, !.utxo = 0,
                   !.bcast = "none"]

\* run_mint_cycle(engine, selector, targets, min_conf, logger) is called
CycleStart(t) ==
    /\ cy[t].pc = "idle"
    /\ cy' = [cy EXCEPT ![t] = NextIter([NoCycle EXCEPT !.ti = 1])]
    /\ UNCHANGED <<cycleFrame, rr, unspent>>

\* an exception that leaves run_mint_cycle
Abort(c, why) == [c EXCEPT !.pc = "aborted", !.abort = why]

\* pick returned wallet w
Picked(c, w) ==
    [c EXCEPT !.pc = "select", !.wallet = w,
              !.attempts[c.ti] = @ + 1,
              !.richest_ok = \A o \in Wallets : Balance(o) <= Balance(w)]

\* WalletSelector.pick, called outside the try blocks of run_mint_cycle
Pick(t) ==
    /\ cy[t].pc = "pick"
    /\ IF n_wallets = 1
       THEN cy' = [cy EXCEPT ![t] = Picked(@, 1)] /\ rr' = rr
       ELSE IF strategy = "richest"
            THEN /\ cy' = [cy EXCEPT ![t] =
                              IF "richest" \in MultiWalletAttrs
                              THEN Picked(@, RichestWallet)
                              ELSE Abort(@, "pick")]
                 /\ rr' = rr
            ELSE /\ cy' = [cy EXCEPT ![t] = Picked(@, rr + 1)]
                 /\ rr' = (rr + 1) % n_wallets
    /\ UNCHANGED <<cycleFrame, unspent>>

\* a try block without its except: the error leaves the cycle
IterationFailedEscapes(c, why) == Abort([c EXCEPT !.failed[c.ti] = TRUE], why)

\* `except Exception: logger.error(...)` and, after UTXO selection, `continue`
IterationFailed(c, why) == NextIter([c EXCEPT !.failed[c.ti] = TRUE])

\* wallet.select_largest_utxo(min_conf): listunspent raises, lists nothing
\* (RuntimeError), or the largest listed UTXO is returned
Select(t) ==
    /\ cy[t].pc = "select"
    /\ \E ok \in BOOLEAN :
          LET S == Selectable(t, cy[t].wallet)
              u == LargestUtxo(S)
          IN cy' = [cy EXCEPT ![t] =
                       IF ~ok \/ S = {}
                       THEN IterationFailed(@, "select")
                       ELSE [@ EXCEPT !.pc = "mint", !.utxo = u,
                                      !.largest = \A x \in ListUtxos(cy[t].wallet) :
                                                      utxo_amount[x] <= utxo_amount[u]]]
    /\ UNCHANGED <<cycleFrame, rr, unspent>>

\* engine.mint(utxo, ...) up to its broadcast: it raises before (gated, fee
\* not covered, signing failed) or goes on to sendrawtransaction
MintCall(t) ==
    /\ cy[t].pc = "mint"
    /\ \E early \in BOOLEAN :
          cy' = [cy EXCEPT ![t] =
                    IF early THEN IterationFailed(@, "mint") ELSE [@ EXCEPT !.pc = "send"]]
    /\ UNCHANGED <<cycleFrame, rr, unspent>>

\* engine.mint: sendrawtransaction of the transaction spending the UTXO.  The
\* node refuses an output that is spent already; otherwise it takes the
\* transaction or the call fails.
Broadcast(t) ==
    /\ cy[t].pc = "send"
    /\ \E ok \in BOOLEAN :
          IF ok /\ cy[t].utxo \in unspent
          THEN /\ unspent' = unspent \ {cy[t].utxo}
               /\ cy' = [cy EXCEPT ![t] = NextIter([@ EXCEPT !.bcast = "accepted"])]
          ELSE /\ unspent' = unspent
               /\ cy' = [cy EXCEPT ![t] =
                            IterationFailed([@ EXCEPT !.bcast = "refused"], "mint")]
    /\ UNCHANGED <<cycleFrame, rr>>

CycleStep(t) ==
    \/ CycleStart(t)
    \/ Pick(t)
    \/ Select(t)
    \/ MintCall(t)
    \/ Broadcast(t)

\* ----------------------------------------------------------- mempool scan
\* The loop body of MempoolScanner.contains_tick on the bytes of one pending
\* transaction.

\* code points of the ticks searched for: A, a, z
ScanChars == {65, 97, 122}

ScanTicks == UNION {[1 .. n -> ScanChars] : n \in 0 .. MaxTickLen}

\* str.lower() of one code point (ASCII and Latin-1 letters)
LowerChar(c) ==
    IF c \in 65 .. 90 \/ (c \in 192 .. 222 /\ c # 215) THEN c + 32 ELSE c

\* str.lower()
LowerStr(s) == [i \in 1 .. Len(s) |-> LowerChar(s[i])]

\* one hexadecimal digit as the node writes it, in lower or in upper case
HexChar(d, upper) == IF d < 10 THEN 48 + d ELSE IF upper THEN 55 + d ELSE 87 + d

RECURSIVE Hexlify(_, _)
\* the hex text of a sequence of bytes
Hexlify(b, upper) ==
    IF b = <<>> THEN <<>>
    ELSE <<HexChar(Head(b) \div 16, upper), HexChar(Head(b) % 16, upper)>>
         \o Hexlify(Tail(b), upper)

\* the value of a hexadecimal digit, -1 for another character
HexNibble(c) ==
    IF c \in 48 .. 57 THEN c - 48
    ELSE IF c \in 97 .. 102 THEN c - 87
    ELSE IF c \in 65 .. 70 THEN c - 55
    ELSE -1

\* bytes.fromhex(text) does not raise ValueError
IsHex(text) == Len(text) % 2 = 0 /\ \A i \in 1 .. Len(text) : HexNibble(text[i]) >= 0

\* bytes.fromhex(text)
FromHex(text) ==
    [i \in 1 .. Len(text) \div 2 |->
        16 * HexNibble(text[2 * i - 1]) + HexNibble(text[2 * i])]

\* `needle in haystack` on bytes
IsInfix(needle, haystack) ==
    \E i \in 0 .. Len(haystack) - Len(needle) :
        \A k \in 1 .. Len(needle) : haystack[i + k] = needle[k]

\* `tick.lower().encode() in bytes.fromhex(raw.lower())`
TickInRaw(tick, raw) ==
    IF ~IsHex(LowerStr(raw)) THEN "exc"
    ELSE IF IsInfix(Encode(LowerStr(tick)), FromHex(LowerStr(raw)))
         THEN "hit" ELSE "miss"

NoScan == [pc |-> "start", raw |-> <<>>, fetched |-> FALSE, found |-> "none"]

\* contains_tick(tick) is about to be called while the mempool holds one
\* transaction, a mint of this bot: its scriptSig carries the inscription of
\* some tick
InitScan ==
    /\ scan_tick \in ScanTicks
    /\ pending_tick \in ScanTicks
    /\ sc = NoScan

\* the bytes of the pending transaction that the search meets: its scriptSig
PendingBytes == BuildInscriptionScript(BuildMintJson(pending_tick, 1000))

scanFrame == <<rpcVars, e_retry_attempts, rate_limit_seconds, default_fee,
               fee_dynamic, fee_api_url, ticker, scanner, max_scan,
               last_mint_ts, mints, m, schedVars, insVars, cycleVars,
               scan_tick, pending_tick>>

\* rpc.call("getrawmempool") returns the id of the pending transaction (or
\* raises: return False); the loop over txids[: self.max_scan] begins
ScanMempool ==
    /\ sc.pc = "start"
    /\ \E ok \in BOOLEAN :
          sc' = IF ok THEN [sc EXCEPT !.pc = "fetch"]
                ELSE [sc EXCEPT !.pc = "done", !.found = "false"]
    /\ UNCHANGED scanFrame

\* rpc.call("getrawtransaction", [txid]) returns the hex of the transaction,
\* or raises: `continue`, the loop is over and contains_tick returns False
ScanFetch ==
    /\ sc.pc = "fetch"
    /\ \E o \in {"lower", "upper", "exc"} :
          sc' = IF o = "exc"
                THEN [sc EXCEPT !.pc = "done", !.found = "false"]
                ELSE [sc EXCEPT !.pc = "search", !.fetched = TRUE,
                                !.raw = Hexlify(PendingBytes, o = "upper")]
    /\ UNCHANGED scanFrame

\* the test of the loop body: `return True` on a hit; otherwise (a miss, or
\* a ValueError of fromhex that is skipped) the loop is over: `return False`
ScanSearch ==
    /\ sc.pc = "search"
    /\ sc' = [sc EXCEPT !.pc = "done",
                        !.found = IF TickInRaw(scan_tick, sc.raw) = "hit"
                                  THEN "true" ELSE "false"]
    /\ UNCHANGED scanFrame

\* ------------------------------------------------------------ specifications
\* Each specification studies one part and lets the rest rest.

RestRPC ==
    /\ InitRPC
    /\ nodes = 1
    /\ retry_attempts_cfg = 1
    /\ retry_wait_cfg = 0
    /\ min_interval = 0

\* a scheduler that was never started
RestSched == InitSched /\ interval = [j \in Jobs |-> 0]

\* one mint of the empty tick, amount 0, not yet begun
RestInscription == InitInscription /\ ins_tick = <<>> /\ ins_amount = 0

\* one wallet, one UTXO layout, no cycle begun
RestCycle ==
    /\ InitCycle
    /\ strategy = "round_robin"
    /\ n_wallets = 1
    /\ utxo_amount = [u \in Utxos |-> 10]
    /\ batch = [k \in Targets |-> 1]

\* the empty tick on both sides, no scan begun
RestScan == InitScan /\ scan_tick = <<>> /\ pending_tick = <<>>

RestOther == RestSched /\ RestInscription /\ RestCycle /\ RestScan

NoGate == ticker = "absent" /\ ~scanner

NoRateLimit == rate_limit_seconds = 0

StaticFee == default_fee = 1 /\ ~fee_dynamic /\ ~fee_api_url

RestMint == InitMint /\ e_retry_attempts = 1 /\ NoRateLimit /\ StaticFee /\ NoGate

InitSpecRPC == InitRPC /\ RestMint /\ RestOther

\* one caller at a time: a single thread uses the client
NextRPC == Tick \/ CallerStep(1)

SpecRPC == InitSpecRPC /\ [][NextRPC]_vars

\* several threads share the client
NextRPCConc == Tick \/ \E t \in Callers : CallerStep(t)

SpecRPCConc == InitSpecRPC /\ [][NextRPCConc]_vars

\* FeeEstimator.estimate() alone, for every configuration of the estimator
InitSpecFee ==
    RestRPC /\ InitMint /\ e_retry_attempts = 1 /\ NoRateLimit /\ NoGate /\ RestOther

NextFee == EstimateStart(1) \/ FeeStep(1)

SpecFee == InitSpecFee /\ [][NextFee]_vars

\* can_mint() alone, for every configuration of the watcher and the scanner
InitSpecGate ==
    RestRPC /\ InitMint /\ e_retry_attempts = 1 /\ NoRateLimit /\ StaticFee /\ RestOther

NextGate == CanMintStart(1) \/ GateStep(1)

SpecGate == InitSpecGate /\ [][NextGate]_vars

\* one job calls mint() on the engine, again and again.  The watcher is
\* absent or has a url, the scanner is absent or scans one id, the rate
\* limit is unset or one tick, and a fee API is configured only where
\* estimate() can read it; the other cases of these parts are SpecGate's
\* and SpecFee's.
InitSpecMint ==
    /\ RestRPC
    /\ InitMint
    /\ rate_limit_seconds <= 1
    /\ ticker # "no_url"
    /\ scanner => max_scan = 1
    /\ fee_api_url => fee_dynamic
    /\ RestOther

NextMint == MintTick \/ MintStart(1) \/ GateStep(1) \/ FeeStep(1) \/ ExecuteStep(1)

SpecMint == InitSpecMint /\ [][NextMint]_vars

\* the jobs of a scheduler call mint() on one engine at the same time; the
\* engine has a rate limit, a static fee and no gate
InitSpecMintConc ==
    /\ RestRPC
    /\ InitMint
    /\ rate_limit_seconds >= 1
    /\ StaticFee
    /\ NoGate
    /\ RestOther

NextMintConc ==
    \/ MintTick
    \/ \E t \in Callers :
          \/ MintStart(t)
          \/ GateWatcher(t)
          \/ GateScanner(t)
          \/ Estimate(t)
          \/ ExecuteStep(t)

SpecMintConc == InitSpecMintConc /\ [][NextMintConc]_vars

\* the jobs of one scheduler, and stop() at any moment
InitSpecSched ==
    RestRPC /\ RestMint /\ InitSched /\ RestInscription /\ RestCycle /\ RestScan

NextSched == Stop \/ \E j \in Jobs : JobStep(j)

SpecSched == InitSpecSched /\ [][NextSched]_vars

\* each job thread keeps running (the threads are scheduled fairly and a job
\* function comes back); nothing makes stop() happen
SpecSchedFair == SpecSched /\ \A j \in Jobs : WF_vars(JobStep(j))

\* the payload of one mint, for every tick and amount
InitSpecInscription ==
    RestRPC /\ RestMint /\ RestSched /\ RestCycle /\ RestScan /\ InitInscription

NextInscription == MintDumps \/ MintScript \/ HelperJson

SpecInscription == InitSpecInscription /\ [][NextInscription]_vars

\* one job runs one mint cycle
InitSpecCycle ==
    RestRPC /\ RestMint /\ RestSched /\ RestInscription /\ RestScan /\ InitCycle

NextCycle == CycleStep(1)

SpecCycle == InitSpecCycle /\ [][NextCycle]_vars

\* the jobs of a scheduler run their mint cycles at the same time
NextCycleConc == \E t \in Callers : CycleStep(t)

SpecCycleConc == InitSpecCycle /\ [][NextCycleConc]_vars

\* contains_tick() on one pending transaction, for every tick and every
\* tick the transaction carries
InitSpecScan ==
    RestRPC /\ RestMint /\ RestSched /\ RestInscription /\ RestCycle /\ InitScan

NextScan == ScanMempool \/ ScanFetch \/ ScanSearch

SpecScan == InitSpecScan /\ [][NextScan]_vars

\* one job calls mint() on an engine whose broadcast runs through the
\* client's own retry loop: every budget of the engine and of the client, no
\* gate, a static fee, no rate limit, no wait between the client's attempts,
\* one node or two
InitSpecNested ==
    /\ InitRPC
    /\ nodes <= 2
    /\ retry_wait_cfg = 0
    /\ min_interval = 0
    /\ InitMint
    /\ NoRateLimit
    /\ StaticFee
    /\ NoGate
    /\ RestOther

NextNested ==
    \/ MintTick
    \/ MintStart(1)
    \/ GateWatcher(1)
    \/ GateScanner(1)
    \/ Estimate(1)
    \/ MintRateLimit(1)
    \/ Build(1)
    \/ Sign(1)
    \/ SendBegin(1)
    \/ ReadNode(1)
    \/ Post(1)
    \/ SwitchRead(1)
    \/ SwitchWrite(1)
    \/ NextAttempt(1)
    \/ SendEnd(1)
    \/ MintRetry(1)
    \/ MintBackoff(1)

SpecNested == InitSpecNested /\ [][NextNested]_vars

\* ------------------------------------------------------- claims, RPC client

\* C1: with one caller, whenever the latest `nodes` request attempts (of one
\* call or of several) all failed, they were sent to `nodes` distinct nodes:
\* every node is visited once before any node is tried again.
C1_RoundRobinFailover ==
    (Len(sent) = nodes /\ \A i \in 1 .. nodes : sent[i][2])
        => \A i, j \in 1 .. nodes : i # j => sent[i][1] # sent[j][1]

\* three nodes, three failures in a row spread over two calls
C1_Witness ==
    /\ nodes = MaxNodes
    /\ nodes > 1
    /\ calls > 1
    /\ Len(sent) = nodes
    /\ \A i \in 1 .. nodes : sent[i][2]

\* C2: a call whose attempts all failed with a transport error or an RPCError
\* made exactly max(1, retry_attempts) attempts and raised the error of its
\* last attempt; a call that returned a result returned it from its last
\* attempt; in both cases the attempt count of the call started at 1,
\* whatever earlier calls did.
C2_RetryBudgetPerCall ==
    \A t \in Callers :
        /\ (ret[t].kind = "raised" /\ ret[t].only_retryable)
              => /\ ret[t].tries = Max(1, retry_attempts_cfg)
                 /\ ret[t].err.of = ret[t].tries
                 /\ ret[t].err.kind = ret[t].last_out
        /\ ret[t].kind = "ok"
              => /\ ret[t].last_out = "ok"
                 /\ ret[t].tries <= Max(1, retry_attempts_cfg)
        /\ ret[t].kind # "none" => ret[t].attempt = ret[t].tries

\* the second call of a caller exhausts a budget of two attempts
C2_Witness ==
    /\ calls = 2
    /\ retry_attempts_cfg = 2
    /\ ret[1].kind = "raised"
    /\ ret[1].only_retryable
    /\ ret[1].tries = 2

\* C3: with a rate limit configured, two attempts released by the limiter one
\* after the other, by whichever callers, are at least min_interval apart.
C3_RateLimitSpacing ==
    (min_interval > 0 /\ Len(released) = 2)
        => released[2] - released[1] >= min_interval

\* a second caller waits for the lock while the first holds it, after two
\* releases spaced by the longest configured interval
C3_Witness ==
    /\ min_interval = MaxInterval
    /\ Len(released) = 2
    /\ released[2] - released[1] = min_interval
    /\ \E t, u \in Callers : t # u /\ rate_lock = t /\ pc[u] = "rl_enter"

\* the fee of a mint() is known and the UTXO does not cover it
Short(j) == j.entry = "mint" /\ j.fee_from # "none" /\ j.utxo - j.fee <= 0

\* C4: a mint() whose utxo.amount - fee <= 0 issues no signrawtransaction and
\* no sendrawtransaction call, and can only end by raising the
\* insufficient-funds error
C4_InsufficientNoBroadcast ==
    \A t \in Callers :
        Short(m[t]) =>
            /\ m[t].n_sign = 0
            /\ m[t].n_send = 0
            /\ m[t].res.kind \in {"none", "raised"}
            /\ m[t].res.kind = "raised" => m[t].res.error.kind = "insufficient"

\* amount 10, fee 11: mint() has raised the insufficient-funds error
C4_Witness ==
    \E t \in Callers :
        /\ m[t].utxo = 10 /\ m[t].fee = 11 /\ m[t].n_build > 0
        /\ m[t].pc = "idle" /\ m[t].res.kind = "raised"
        /\ m[t].res.error.kind = "insufficient"

\* C5: when utxo.amount - fee <= 0, mint() builds the transaction once and
\* waits for no backoff, whatever retry_attempts is
C5_InsufficientNotRetried ==
    \A t \in Callers :
        Short(m[t]) => m[t].n_build <= 1 /\ m[t].n_backoff = 0

\* some call of a later stage of mint() has been made, or its fee is known
PastGate(j) ==
    \/ j.n_fee_rpc + j.n_fee_api + j.n_default > 0
    \/ j.fee_from # "none"
    \/ j.n_build + j.n_sign + j.n_send > 0

\* C6: in every mint(), fee estimation, build, signing and broadcast happen
\* only after the gate has passed; a gated mint() has made no fee-estimation,
\* signing or broadcast call; and one gated because the watcher said "not
\* live" has not asked the mempool scanner
C6_GatingFirst ==
    \A t \in Callers :
        m[t].entry = "mint" =>
            /\ PastGate(m[t]) => m[t].gate_passed
            /\ m[t].res.kind = "gated" => ~PastGate(m[t]) /\ ~m[t].gate_passed
            /\ (m[t].res.kind = "gated" /\ m[t].res.error.kind = "not_live") =>
                   m[t].n_mempool = 0 /\ m[t].fetched = 0

\* with a watcher and a scanner configured, a mint() was gated as not live
C6_Witness ==
    \E t \in Callers :
        /\ ticker = "url" /\ scanner
        /\ m[t].entry = "mint" /\ m[t].pc = "idle" /\ m[t].n_watch = 1
        /\ m[t].res.kind = "gated" /\ m[t].res.error.kind = "not_live"

\* C7: a mint() that passed the gate, whatever the earlier mint() calls did,
\* runs _execute at most max(1, retry_attempts) times; when it raises, the
\* error is that of the last attempt made; when it returns, the txid is that
\* of the last attempt made, which is the only one that broadcast with success
C7_BoundedRetry ==
    \A t \in Callers :
        m[t].entry = "mint" =>
            /\ m[t].n_exec <= Max(1, e_retry_attempts)
            /\ m[t].n_sign <= m[t].n_exec /\ m[t].n_send <= m[t].n_exec
            /\ m[t].res.kind = "raised" =>
                   m[t].res.error.of = m[t].n_exec /\ m[t].res.error.kind # "none"
            /\ m[t].res.kind = "sent" => m[t].res.txid = m[t].n_exec

\* the second mint() of an engine with retry_attempts = 2 has failed twice at
\* the broadcast and raised
C7_Witness ==
    \E t \in Callers :
        /\ mints = 2 /\ e_retry_attempts = 2
        /\ m[t].pc = "idle" /\ m[t].res.kind = "raised"
        /\ m[t].n_exec = 2 /\ m[t].n_send = 2 /\ m[t].res.error.kind = "send"

\* a fee source was asked and gave no fee: None, a swallowed error, or zero
Dry(src) == src.st \in {"none", "caught"} \/ (src.st = "value" /\ src.v = 0)

\* C8: with dynamic estimation, once the node source has given a positive fee
\* the API and the default are not consulted and estimate() returns the
\* node's fee; when the node source gave nothing and the API a positive fee,
\* estimate() returns the API's fee
C8_FeeCascade ==
    \A t \in Callers :
        (m[t].entry = "estimate" /\ fee_dynamic) =>
            /\ FeeWins(m[t].node_src) =>
                   /\ m[t].n_fee_api = 0 /\ m[t].n_default = 0
                   /\ m[t].api_src = Unasked
                   /\ m[t].res.kind = "fee"
                   /\ m[t].fee = m[t].node_src.v /\ m[t].fee_from = "node"
            /\ (Dry(m[t].node_src) /\ FeeWins(m[t].api_src)) =>
                   /\ m[t].n_default = 0
                   /\ m[t].res.kind = "fee"
                   /\ m[t].fee = m[t].api_src.v /\ m[t].fee_from = "api"

\* estimate() returned the node's fee: feerate 30 per kB on 400 bytes
C8_Witness ==
    \E t \in Callers :
        /\ m[t].entry = "estimate" /\ fee_dynamic /\ m[t].pc = "idle"
        /\ m[t].node_src = Value(12) /\ m[t].res.kind = "fee" /\ m[t].fee = 12

\* estimate() returned the API's fee after the node source failed
C8_WitnessApi ==
    \E t \in Callers :
        /\ m[t].entry = "estimate" /\ fee_dynamic /\ m[t].pc = "idle"
        /\ m[t].node_src = Caught /\ m[t].api_src = Value(11)
        /\ m[t].res.kind = "fee" /\ m[t].fee = 11

\* C9: estimate() never raises, whatever the node source and the API do, and
\* when neither gave a fee it returns the configured default
C9_EstimateNeverFails ==
    \A t \in Callers :
        m[t].entry = "estimate" =>
            /\ m[t].res.kind \in {"none", "fee"}
            /\ m[t].node_src.st # "raise" /\ m[t].api_src.st # "raise"
            /\ (m[t].res.kind = "fee" /\ Dry(m[t].node_src) /\ Dry(m[t].api_src)) =>
                   m[t].fee = default_fee /\ m[t].fee_from = "default"

\* both sources failed inside and estimate() returned the default
C9_Witness ==
    \E t \in Callers :
        /\ m[t].entry = "estimate" /\ fee_api_url /\ m[t].pc = "idle"
        /\ m[t].node_src = Caught /\ m[t].api_src = Caught
        /\ m[t].res.kind = "fee" /\ m[t].fee = default_fee /\ default_fee = 13

\* C10: one contains_tick call fetches at most max_scan transactions (none
\* when max_scan is not positive), whatever the size of the mempool
C10_ScanBounded ==
    \A t \in Callers : scanner => m[t].fetched <= Max(0, max_scan)

\* ------------------------------------------------------- claims, scheduler
\* C11: once stop() has been called, a job finishes at most one more
\* time.sleep(1), whatever its interval; it calls its function at most once
\* more, and only if it had passed the loop test and was about to call it; a
\* job that was in its sleep loop never calls its function again
C11_StopWithinOneTick ==
    \A j \in Jobs :
        stop_event =>
            /\ sj[j].late_sleeps <= 1
            /\ sj[j].late_runs <= 1
            /\ sj[j].late_runs = 1 => sj[j].at_stop = "func"
            /\ sj[j].at_stop \in {"test_wait", "sleep"} => sj[j].late_runs = 0
            /\ (sj[j].late_runs = 1 /\ sj[j].pc # "in_func") => sj[j].late_sleeps = 0

\* a job with the longest interval was stopped in its first sleep and has
\* left its loop after that one sleep
C11_Witness ==
    \E j \in Jobs :
        /\ interval[j] = MaxJobInterval /\ stop_event
        /\ sj[j].at_stop = "sleep" /\ sj[j].pc = "exited"
        /\ sj[j].waited = 1 /\ sj[j].late_sleeps = 1

\* C12: no job thread ends while stop() has not been called, and after each
\* run of its function, raised or not, a job runs it again unless stop() is
\* called
C12_JobRunsAgain ==
    /\ [](\A j \in Jobs : sj[j].pc = "exited" => stop_event)
    /\ \A j \in Jobs :
          (sj[j].pc = "test_wait" /\ sj[j].waited = 0) ~>
              (stop_event \/ sj[j].pc = "in_func")

\* a job whose function has raised is running it again
C12_Witness ==
    \E j \in Jobs :
        ~stop_event /\ sj[j].raised /\ sj[j].pc = "in_func" /\ interval[j] > 0

\* ---------------------------------------------------------- claims, gating
\* C13: gating rejects only on a watcher that answered "not live" or on a
\* fetched transaction that holds the tick; when the watcher is absent, has
\* no url or its call failed, and the scanner is absent or getrawmempool
\* failed, can_mint returns true
C13_GatingFailsOpen ==
    \A t \in Callers :
        /\ m[t].res.kind \in {"cannot_mint", "gated"} =>
               /\ m[t].res.error.kind = "not_live" => m[t].gate.watch = "live_false"
               /\ m[t].res.error.kind = "pending" =>
                      m[t].gate.mempool = "ok" /\ m[t].fetched > m[t].gate.exc
        /\ ( /\ m[t].res.kind \in {"can_mint", "cannot_mint"}
             /\ m[t].gate.watch \in {"none", "no_url", "exc"}
             /\ m[t].gate.mempool \in {"none", "failed"} ) =>
               m[t].res.kind = "can_mint"

\* the ticker API call and getrawmempool both failed and can_mint said yes
C13_Witness ==
    \E t \in Callers :
        /\ ticker = "url" /\ scanner
        /\ m[t].gate.watch = "exc" /\ m[t].gate.mempool = "failed"
        /\ m[t].pc = "idle" /\ m[t].res.kind = "can_mint"

\* the ids contains_tick is to look at, for a max_scan that is not negative
ScanRange(j) == Min(j.gate.n, max_scan)

\* C14: for max_scan >= 0, contains_tick says "pending" only at a fetched
\* transaction that holds the tick, within the first max_scan ids, and stops
\* there; it says "not pending" only after every one of the first max_scan
\* ids was fetched, however many of those fetches failed
C14_FetchErrorsSkipped ==
    \A t \in Callers :
        (m[t].gate.mempool = "ok" /\ max_scan >= 0) =>
            /\ m[t].fetched <= ScanRange(m[t])
            /\ m[t].gate.exc <= m[t].fetched
            /\ (m[t].pc = "idle" /\ m[t].res.error.kind = "pending") =>
                   m[t].fetched >= 1 /\ m[t].gate.exc < m[t].fetched
            /\ (m[t].pc = "idle" /\ m[t].res.kind = "can_mint") =>
                   m[t].fetched = ScanRange(m[t])

\* the second id held the tick after the fetch of the first had failed
C14_Witness ==
    \E t \in Callers :
        /\ m[t].pc = "idle" /\ m[t].res.error.kind = "pending"
        /\ m[t].gate.exc = 1 /\ m[t].fetched = 2

\* every fetch of a full range failed and the scan said "not pending"
C14_WitnessAllFail ==
    \E t \in Callers :
        /\ m[t].pc = "idle" /\ m[t].res.kind = "can_mint"
        /\ m[t].gate.exc = MaxScan /\ m[t].fetched = MaxScan

\* ----------------------------------------------------- claims, inscription
\* the bytes a .. b of s that exist
Cut(s, a, b) == [x \in 1 .. Max(0, Min(b, Len(s)) - a + 1) |-> s[a + x - 1]]

HexVal(c) == IF c <= 57 THEN c - 48 ELSE c - 87

RECURSIVE Unescape(_)
\* the string a JSON parser reads from the inside of a string literal; -1
\* marks what is not one (a bare quote, a byte past ASCII, a cut escape)
Unescape(e) ==
    IF e = <<>> THEN <<>>
    ELSE IF Head(e) = 92
         THEN IF Len(e) >= 2 /\ e[2] \in {34, 92}
              THEN <<e[2]>> \o Unescape(Cut(e, 3, Len(e)))
              ELSE IF Len(e) >= 6 /\ e[2] = 117
                   THEN <<4096 * HexVal(e[3]) + 256 * HexVal(e[4])
                          + 16 * HexVal(e[5]) + HexVal(e[6])>>
                        \o Unescape(Cut(e, 7, Len(e)))
                   ELSE <<-1>>
         ELSE IF Head(e) = 34 \/ Head(e) > 126 \/ Head(e) < 32
              THEN <<-1>>
              ELSE <<Head(e)>> \o Unescape(Tail(e))

RECURSIVE ParseNat(_)
ParseNat(d) ==
    IF d = <<>> THEN 0 ELSE 10 * ParseNat(Cut(d, 1, Len(d) - 1)) + (d[Len(d)] - 48)

\* d is how an integer is written: digits, no leading zero, "-" if negative
IsDecimal(d) ==
    LET u == IF d # <<>> /\ d[1] = 45 THEN Tail(d) ELSE d
    IN /\ u # <<>>
       /\ \A x \in 1 .. Len(u) : u[x] \in 48 .. 57
       /\ Len(u) > 1 => u[1] # 48

ParseInt(d) == IF d[1] = 45 THEN 0 - ParseNat(Tail(d)) ELSE ParseNat(d)

\* {"p":"zrc-20","op":"mint","tick":"
JsonHead ==
    <<123, 34, 112, 34, 58, 34, 122, 114, 99, 45, 50, 48, 34, 44,
      34, 111, 112, 34, 58, 34, 109, 105, 110, 116, 34, 44,
      34, 116, 105, 99, 107, 34, 58, 34>>

\* ","amt":"
JsonMid == <<34, 44, 34, 97, 109, 116, 34, 58, 34>>

\* "}
JsonTail == <<34, 125>>

\* 03 o r d 11, application/json, 00
ScriptHead ==
    <<3, 111, 114, 100, 17,
      97, 112, 112, 108, 105, 99, 97, 116, 105, 111, 110, 47, 106, 115, 111, 110,
      0>>

\* J is {"p":"zrc-20","op":"mint","tick":"<tick>","amt":"<amount>"} with
\* nothing between its tokens
IsMintJson(J, tick, amount) ==
    \E i \in Len(JsonHead) .. Len(J) :
        LET k == Len(J) - Len(JsonTail)
            E == Cut(J, Len(JsonHead) + 1, i)
            D == Cut(J, i + Len(JsonMid) + 1, k)
        IN /\ Cut(J, 1, Len(JsonHead)) = JsonHead
           /\ Cut(J, i + 1, i + Len(JsonMid)) = JsonMid
           /\ Cut(J, k + 1, Len(J)) = JsonTail
           /\ Unescape(E) = tick
           /\ IsDecimal(D) /\ ParseInt(D) = amount

\* C15: the script mint() embeds is the 5 magic bytes, application/json, a
\* zero byte and the compact JSON of p, op, tick, amt in that order with amt
\* a string, and that JSON is the one build_mint_json gives
C15_WireFormat ==
    /\ ins.pc \in {"built", "done"} =>
          /\ Cut(ins.script, 1, Len(ScriptHead)) = ScriptHead
          /\ IsMintJson(Cut(ins.script, Len(ScriptHead) + 1, Len(ins.script)),
                        ins_tick, ins_amount)
    /\ ins.pc = "done" =>
          Encode(ins.helper) = Cut(ins.script, Len(ScriptHead) + 1, Len(ins.script))

\* the script of tick `A"` (a quote in it) and amount 1000 is built
C15_Witness ==
    ins.pc = "done" /\ ins_tick = <<65, 34>> /\ ins_amount = 1000 /\ Len(ins.script) > 22

\* ------------------------------------------------------ claims, mint cycle
\* C16: with the strategy "richest" and two or more wallets, every pick of a
\* mint cycle returns a wallet, and one whose balance is the largest at that
\* moment
C16_RichestPicked ==
    \A t \in Callers :
        (strategy = "richest" /\ n_wallets >= 2) =>
            cy[t].abort # "pick" /\ cy[t].richest_ok

\* C17: a failure of engine.mint or of the UTXO selection never ends the
\* cycle: only a failing pick makes run_mint_cycle raise, a target that the
\* cycle has left behind got its `batch` attempts, failed or not, and a
\* cycle that ends has given every target its `batch` attempts
C17_CycleGoesOn ==
    \A t \in Callers :
        /\ cy[t].pc = "aborted" => cy[t].abort = "pick"
        /\ \A k \in Targets :
              /\ cy[t].attempts[k] <= batch[k]
              /\ (cy[t].pc = "done" \/ (cy[t].pc # "aborted" /\ cy[t].ti > k)) =>
                     cy[t].attempts[k] = batch[k]

\* the first target had a failed attempt and the second got its full batch
C17_Witness ==
    \E t \in Callers :
        /\ cy[t].pc = "done" /\ cy[t].failed[1]
        /\ batch[1] > 0 /\ batch[2] = MaxBatch /\ cy[t].attempts[2] = MaxBatch

\* C20: select_largest_utxo returns the largest UTXO the node lists for the
\* wallet, whoever else holds it: no job keeps a UTXO for itself between its
\* selection and its broadcast
C20_NothingSerializesSelection ==
    \A t \in Callers : cy[t].largest

\* two jobs selected the same UTXO and both sent a transaction spending it:
\* the node took the first and refused the second
C20_Witness ==
    \E t1, t2 \in Callers :
        /\ t1 # t2
        /\ cy[t1].utxo # 0 /\ cy[t1].utxo = cy[t2].utxo
        /\ cy[t1].bcast = "accepted" /\ cy[t2].bcast = "refused"

\* ------------------------------------------------------ claims, concurrency
\* C18: failover decisions are serialized across callers: a request about to
\* be sent goes to the node the index points at (no failover of another
\* caller took effect since the index was read), and a failover about to
\* store the next index has read the index as it still is (none is lost or
\* doubled)
C18_FailoverSerialized ==
    \A t \in Callers :
        /\ pc[t] = "post" => node[t] = index
        /\ pc[t] = "switch_write" => idx_read[t] = index

\* C19: with a minimum interval between mints configured, the attempts of two
\* jobs minting on the same engine leave _respect_rate_limit at least that
\* interval apart
C19_MintSpacing ==
    \A t1, t2 \in Callers :
        (t1 # t2 /\ rate_limit_seconds > 0 /\ m[t1].stamp > 0 /\ m[t2].stamp > 0) =>
            \/ m[t1].stamp - m[t2].stamp >= rate_limit_seconds
            \/ m[t2].stamp - m[t1].stamp >= rate_limit_seconds

\* ----------------------------------------------- claims, index and fee range
\* C21: in every state, with one caller or several interleaved, after
\* successful and failed calls, the node list is not empty and the node index
\* is a position of it: 0 <= index < number of nodes; so is every index a
\* caller has read from it
C21_IndexInRange ==
    /\ nodes >= 1
    /\ index \in 0 .. nodes - 1
    /\ \A t \in Callers : node[t] \in 0 .. nodes - 1 /\ idx_read[t] \in 0 .. nodes - 1

\* the calls of two callers failed as many times as there are nodes, and the
\* index is back at the first node
C21_Witness ==
    /\ nodes = MaxNodes
    /\ nodes > 1
    /\ index = 0
    /\ Len(sent) = nodes
    /\ \A i \in 1 .. nodes : sent[i][2]
    /\ \A t \in Callers : pc[t] = "idle" /\ ret[t].kind = "raised"

\* C22: with a non-negative default, the fee estimate() returns is never
\* negative, whatever the node source and the API answer (a negative feerate
\* or a negative API field included); a source counts only with a value that
\* is neither zero nor absent, otherwise the next source is asked
C22_FeeNonNegative ==
    \A t \in Callers :
        (m[t].entry = "estimate" /\ m[t].res.kind = "fee" /\ default_fee >= 0) =>
            /\ m[t].fee >= 0
            /\ m[t].fee_from = "node" => FeeWins(m[t].node_src)
            /\ m[t].fee_from = "api" => ~FeeWins(m[t].node_src) /\ FeeWins(m[t].api_src)

\* ------------------------------------------------------ claims, mempool scan
\* bytes.lower(): the ASCII letters of a sequence of bytes in lower case
LowerBytes(b) == [i \in 1 .. Len(b) |-> IF b[i] \in 65 .. 90 THEN b[i] + 32 ELSE b[i]]

\* the bytes hold the tick in some letter case
HoldsAnyCase(b, tick) == IsInfix(LowerBytes(Encode(tick)), LowerBytes(b))

\* C23: contains_tick(tick) returns true whenever the bytes of a scanned
\* transaction (one it could fetch) contain the tick in any letter case, as
\* the mint payload of this bot embeds it
C23_SearchIgnoresCase ==
    (sc.pc = "done" /\ sc.fetched /\ HoldsAnyCase(PendingBytes, scan_tick))
        => sc.found = "true"

\* ---------------------------------------------------- claims, index changes
\* C24: with a single caller the node index changes exactly when a request
\* attempt has failed, and then to index + 1 modulo the number of nodes;
\* every failed attempt, retried or not, is followed by that switch, and one
\* that is not retried (a response with neither result nor error) ends the
\* call there; a successful attempt leaves the index alone, so of two
\* attempts in a row the second goes to the node after the first when the
\* first failed and to the same node when it succeeded
C24_IndexMovesOnFailure ==
    /\ [][/\ index' = IF pc[1] = "switch_write" /\ pc'[1] # pc[1]
                      THEN (index + 1) % nodes ELSE index
          /\ (pc[1] = "post" /\ pc'[1] \notin {"post", "idle"}) =>
                 pc'[1] = "switch_read" /\ err'[1].kind # "none"
          /\ (pc[1] = "post" /\ pc'[1] = "idle") => ret'[1].kind = "ok"
          /\ (pc[1] = "switch_read" /\ pc'[1] # pc[1]) => pc'[1] = "switch_write"
          /\ (pc[1] = "switch_write" /\ pc'[1] # pc[1] /\ err[1].kind = "malformed") =>
                 /\ pc'[1] = "idle"
                 /\ ret'[1].kind = "raised"
                 /\ ret'[1].err.of = ret'[1].tries]_vars
    /\ [](\A i \in 1 .. Len(sent) - 1 :
             sent[i + 1][1] = IF sent[i][2] THEN (sent[i][1] + 1) % nodes ELSE sent[i][1])

\* a first call succeeded on node 0; the second call went to node 0 again,
\* got a response with neither result nor error, moved the index to node 1
\* and raised after that one attempt, with a budget of two
C24_Witness ==
    /\ nodes = MaxNodes
    /\ retry_attempts_cfg = 2
    /\ calls = 2
    /\ sent = << <<0, FALSE>>, <<0, TRUE>> >>
    /\ index = 1
    /\ pc[1] = "idle"
    /\ ret[1].kind = "raised" /\ ~ret[1].only_retryable /\ ret[1].tries = 1

\* ---------------------------------------------------- claims, nested retry
\* the sendrawtransaction requests of a mint() so far: those of its finished
\* calls and those of the call in progress
SendRequests(t) ==
    m[t].n_req + IF m[t].pc # "sending" THEN 0
                 ELSE IF pc[t] = "idle" THEN ret[t].tries ELSE tries[t]

\* C25: one mint() with engine budget E = max(1, engine retry_attempts) and
\* client budget R = max(1, client retry_attempts) sends at most E * R
\* sendrawtransaction requests to the nodes: it makes at most E attempts, each
\* of which signs again before its one broadcast call, and a broadcast call
\* posts at most R requests
C25_NestedRetry ==
    \A t \in Callers :
        m[t].entry = "mint" =>
            /\ SendRequests(t) <= Max(1, e_retry_attempts) * Max(1, retry_attempts_cfg)
            /\ m[t].n_send <= m[t].n_sign
            /\ m[t].n_sign <= m[t].n_exec
            /\ m[t].n_exec <= Max(1, e_retry_attempts)
            /\ m[t].pc = "sending" => tries[t] <= Max(1, retry_attempts_cfg)

\* with both budgets at two, a mint() has raised after four requests, more
\* than the engine's budget
C25_Witness ==
    \E t \in Callers :
        /\ e_retry_attempts = 2 /\ retry_attempts_cfg = 2
        /\ m[t].pc = "idle" /\ m[t].res.kind = "raised"
        /\ m[t].n_send = 2 /\ m[t].n_req = 4
        /\ m[t].n_req > Max(1, e_retry_attempts)

====
